---------------------------- MODULE Spec2Model ----------------------------
(***************************************************************************)
(* State-machine model of the Andor Shamrock spectrograph driver           *)
(* (andorApp/src/shamrock.cpp): the constructor, the status refresh        *)
(* getStatus, the write handlers writeInt32 / writeFloat64 and the         *)
(* calibration read-back readFloat32Array.  Each handler is one atomic     *)
(* action (the host framework serialises the calls on the port).           *)
(*                                                                         *)
(* The vendor SDK is opaque: every SDK call may fail, which the actions    *)
(* draw as inputs.  Floating point values are modelled by small integers.  *)
(***************************************************************************)
EXTENDS Integers, Sequences, FiniteSets, TLC

(***************************************************************************)
(* Program constants.                                                      *)
(***************************************************************************)
MAX_SLITS == 4
MAX_GRATINGS == 3
MAX_FLIPPER_MIRRORS == 2
MAX_ADDR == 4

(***************************************************************************)
(* Bounds of the model.                                                    *)
(***************************************************************************)
\* number of write / read-back requests served after construction
MaxOps == 1
\* number of SDK calls of the constructor (outside its refresh) that fail
MaxCtorFailures == 1

\* values a write request carries
WriteValues == {1, 2}
\* values an uninitialised float or int may hold
Garbage == {7, 8}
\* capacities a calibration read-back request carries
Capacities == 0 .. 3

Addrs == 0 .. (MAX_ADDR - 1)
Slits == 0 .. (MAX_SLITS - 1)
Mirrors == 0 .. (MAX_FLIPPER_MIRRORS - 1)

\* a parameter that was created but never set, a member never assigned
Undef == -1

IntParams == {"SRGrating_", "SRNumGratings_", "SRGratingExists_",
              "SRFlipperMirrorExists_", "SRFlipperMirrorPort_", "SRSlitExists_"}
FloatParams == {"SRWavelength_", "SRMinWavelength_", "SRMaxWavelength_",
                "SRSlitSize_"}
Params == IntParams \cup FloatParams

(***************************************************************************)
(* The devices the driver is constructed against: which slits and flipper  *)
(* mirrors are present, how many gratings, how many detector pixels, and   *)
(* how many spectrographs the SDK finds.                                   *)
(***************************************************************************)
Devices ==
  { [slits |-> <<TRUE, FALSE, TRUE, FALSE>>, mirrors |-> <<TRUE, FALSE>>,
     gratings |-> 2, pixels |-> 2, devices |-> 1],
    [slits |-> <<FALSE, TRUE, FALSE, TRUE>>, mirrors |-> <<FALSE, TRUE>>,
     gratings |-> 3, pixels |-> 1, devices |-> 1],
    [slits |-> <<FALSE, FALSE, FALSE, FALSE>>, mirrors |-> <<FALSE, FALSE>>,
     gratings |-> 0, pixels |-> 2, devices |-> 1],
    [slits |-> <<TRUE, TRUE, TRUE, TRUE>>, mirrors |-> <<TRUE, TRUE>>,
     gratings |-> 1, pixels |-> 3, devices |-> 1],
    [slits |-> <<TRUE, TRUE, TRUE, TRUE>>, mirrors |-> <<TRUE, TRUE>>,
     gratings |-> 1, pixels |-> 3, devices |-> 0] }

\* wavelength limits the device reports for grating i
DeviceLimits(i) == [min |-> 20 + i, max |-> 30 + i]

\* the calibration table the device computes for n pixels
DeviceCalibration(g, w, n) == [p \in 1 .. n |-> 10 * w + 3 * g + p]

VARIABLES
  device,                   \* the hardware configuration (fixed)
  dev,                      \* the hardware's current settings
  phase,                    \* "new", "inert", "ready" or "crashed"
  slitIsPresent_,           \* bool slitIsPresent_[MAX_SLITS]
  flipperMirrorIsPresent_,  \* bool flipperMirrorIsPresent_[MAX_FLIPPER_MIRRORS]
  numPixels_,               \* int numPixels_
  calibration_,             \* float *calibration_
  params,                   \* the parameter library, per address
  published,                \* what callParamCallbacks delivered, per address
  publishedCal,             \* what doCallbacksFloat32Array delivered
  last,                     \* the handler invocation that ran last
  nOps                      \* requests served so far

vars == <<device, dev, phase, slitIsPresent_, flipperMirrorIsPresent_,
          numPixels_, calibration_, params, published, publishedCal, last, nOps>>

(***************************************************************************)
(* Helpers: the parameter library and the SDK call log.                    *)
(***************************************************************************)
NoParams == [a \in Addrs |-> [p \in Params |-> Undef]]

\* mutant of setParam: the address is dropped, as setIntegerParam(function, value) does
setParam_IgnoresAddr(p, addr, function, value) == [p EXCEPT ![0][function] = value]

\* setIntegerParam(addr, function, value) / setDoubleParam(addr, function, value)
setParam(p, addr, function, value) == [p EXCEPT ![addr][function] = value]

\* one SDK call: the function, its index argument (0 when it has none), the outcome
Call(fn, arg, ok) == [fn |-> fn, arg |-> arg, ok |-> ok]

NoFail == <<"none", 0>>

checkError(ok) == IF ~ok THEN "asynError" ELSE "asynSuccess"

BoolInt(b) == IF b THEN 1 ELSE 0


(***************************************************************************)
(* getStatus.  s is the state the routine works on:                        *)
(*   params, published, publishedCal, calibration, calls, ret              *)
(* with ret = "run" while it has not returned.  mp and sp are the values   *)
(* read from flipperMirrorIsPresent_ and slitIsPresent_, np is numPixels_, *)
(* dv the hardware's settings, failAt the SDK read that fails (NoFail:     *)
(* none), g the pair of values read from a calibration buffer that was     *)
(* never set up, crash whether writing through such a buffer ends the      *)
(* process.                                                                *)
(***************************************************************************)
\* one iteration of the flipper-mirror loop
FlipperIter(s, i, mp, dv, failAt) ==
  IF ~mp[i] THEN s
  ELSE LET ok == failAt # <<"GetFlipperMirror", i + 1>>
           s1 == [s EXCEPT !.calls = Append(@, Call("GetFlipperMirror", i + 1, ok))]
       IN IF checkError(ok) # "asynSuccess"
          THEN [s1 EXCEPT !.ret = "asynError"]
          ELSE [s1 EXCEPT !.params = setParam(@, i, "SRFlipperMirrorPort_", dv.port[i])]

RECURSIVE FlipperLoop(_, _, _, _, _)
FlipperLoop(s, i, mp, dv, failAt) ==
  IF i >= MAX_FLIPPER_MIRRORS \/ s.ret # "run" THEN s
  ELSE FlipperLoop(FlipperIter(s, i, mp, dv, failAt), i + 1, mp, dv, failAt)

ReadGrating(s, dv, failAt) ==
  IF s.ret # "run" THEN s
  ELSE LET ok == failAt # <<"GetGrating", 0>>
           s1 == [s EXCEPT !.calls = Append(@, Call("GetGrating", 0, ok))]
       IN IF checkError(ok) # "asynSuccess"
          THEN [s1 EXCEPT !.ret = "asynError"]
          ELSE [s1 EXCEPT !.params = setParam(@, 0, "SRGrating_", dv.grating)]

\* mutant of ReadWavelength: the refresh does not read the wavelength
ReadWavelength_Skipped(s, dv, failAt) == s

ReadWavelength(s, dv, failAt) ==
  IF s.ret # "run" THEN s
  ELSE LET ok == failAt # <<"GetWavelength", 0>>
           s1 == [s EXCEPT !.calls = Append(@, Call("GetWavelength", 0, ok))]
       IN IF checkError(ok) # "asynSuccess"
          THEN [s1 EXCEPT !.ret = "asynError"]
          ELSE [s1 EXCEPT !.params = setParam(@, 0, "SRWavelength_", dv.wavelength)]

\* the value the slit loop stores before it looks at the presence flag
SlitDefault(i) == 0

\* one iteration of the slit loop
SlitIter(s, i, sp, dv, failAt) ==
  LET s0 == [s EXCEPT !.params = setParam(@, i, "SRSlitSize_", SlitDefault(i))]
  IN IF ~sp[i] THEN s0
     ELSE LET ok == failAt # <<"GetSlitWidth", i + 1>>
              s1 == [s0 EXCEPT !.calls = Append(@, Call("GetSlitWidth", i + 1, ok))]
          IN IF checkError(ok) # "asynSuccess"
             THEN [s1 EXCEPT !.ret = "asynError"]
             ELSE [s1 EXCEPT !.params = setParam(@, i, "SRSlitSize_", dv.slitWidth[i])]

\* mutant of SlitLoop: every width is set to its default before the first read
SlitLoop_DefaultsFirst(s, i, sp, dv, failAt) ==
  LET z == [s EXCEPT !.params =
              [a \in Addrs |-> IF a \in Slits /\ s.ret = "run"
                               THEN [s.params[a] EXCEPT !["SRSlitSize_"] = SlitDefault(a)]
                               ELSE s.params[a]]]
      it0 == IF z.ret = "run" THEN SlitIter(z, 0, sp, dv, failAt) ELSE z
      it1 == IF it0.ret = "run" THEN SlitIter(it0, 1, sp, dv, failAt) ELSE it0
      it2 == IF it1.ret = "run" THEN SlitIter(it1, 2, sp, dv, failAt) ELSE it1
  IN IF it2.ret = "run" THEN SlitIter(it2, 3, sp, dv, failAt) ELSE it2

RECURSIVE SlitLoop(_, _, _, _, _)
SlitLoop(s, i, sp, dv, failAt) ==
  IF i >= MAX_SLITS \/ s.ret # "run" THEN s
  ELSE SlitLoop(SlitIter(s, i, sp, dv, failAt), i + 1, sp, dv, failAt)

\* callParamCallbacks(i) for every address, then doCallbacksFloat32Array
PublishAll(s) ==
  [s EXCEPT !.published = s.params, !.publishedCal = s.calibration]

\* mutant of ReadCalibration: the range is stored at the address of the current grating
ReadCalibration_AtGrating(s, np, dv, failAt, g, crash) ==
  IF s.ret # "run" THEN s
  ELSE LET ok == failAt # <<"GetCalibration", 0>>
           s1 == [s EXCEPT !.calls = Append(@, Call("GetCalibration", 0, ok))]
       IN IF np = Undef /\ crash
          THEN [s1 EXCEPT !.ret = "crash"]
          ELSE IF checkError(ok) # "asynSuccess"
          THEN [s1 EXCEPT !.ret = "asynError"]
          ELSE LET cal == IF np = Undef THEN s.calibration
                          ELSE DeviceCalibration(dv.grating, dv.wavelength, np)
                   first == IF np = Undef THEN g[1] ELSE cal[1]
                   lastv == IF np = Undef THEN g[2] ELSE cal[np]
                   s2 == [s1 EXCEPT !.calibration = cal]
                   s3 == [s2 EXCEPT !.params =
                            setParam(@, dv.grating, "SRMinWavelength_", first)]
                   s4 == [s3 EXCEPT !.params =
                            setParam(@, dv.grating, "SRMaxWavelength_", lastv)]
               IN [PublishAll(s4) EXCEPT !.ret = "asynSuccess"]

ReadCalibration(s, np, dv, failAt, g, crash) ==
  IF s.ret # "run" THEN s
  ELSE LET ok == failAt # <<"GetCalibration", 0>>
           s1 == [s EXCEPT !.calls = Append(@, Call("GetCalibration", 0, ok))]
       IN IF np = Undef /\ crash
          THEN [s1 EXCEPT !.ret = "crash"]
          ELSE IF checkError(ok) # "asynSuccess"
          THEN [s1 EXCEPT !.ret = "asynError"]
          ELSE LET cal == IF np = Undef THEN s.calibration
                          ELSE DeviceCalibration(dv.grating, dv.wavelength, np)
                   first == IF np = Undef THEN g[1] ELSE cal[1]
                   lastv == IF np = Undef THEN g[2] ELSE cal[np]
                   s2 == [s1 EXCEPT !.calibration = cal]
                   s3 == [s2 EXCEPT !.params = setParam(@, 0, "SRMinWavelength_", first)]
                   s4 == [s3 EXCEPT !.params = setParam(@, 0, "SRMaxWavelength_", lastv)]
               IN [PublishAll(s4) EXCEPT !.ret = "asynSuccess"]

getStatus(s, mp, sp, np, dv, failAt, g, crash) ==
  LET s0 == [s EXCEPT !.ret = "run"]
      s1 == FlipperLoop(s0, 0, mp, dv, failAt)
      s2 == ReadGrating(s1, dv, failAt)
      s3 == ReadWavelength(s2, dv, failAt)
      s4 == SlitLoop(s3, 0, sp, dv, failAt)
  IN ReadCalibration(s4, np, dv, failAt, g, crash)

\* the SDK reads a refresh can make, in the order it makes them
RefreshCalls ==
  { <<"GetFlipperMirror", i + 1>> : i \in Mirrors } \cup
  { <<"GetGrating", 0>>, <<"GetWavelength", 0>> } \cup
  { <<"GetSlitWidth", i + 1>> : i \in Slits } \cup
  { <<"GetCalibration", 0>> }

\* the failure inputs of a refresh that matter under the flags mp, sp
FailPoints(mp, sp) ==
  {NoFail} \cup
  { c \in RefreshCalls :
      /\ c[1] = "GetFlipperMirror" => mp[c[2] - 1]
      /\ c[1] = "GetSlitWidth" => sp[c[2] - 1] }

\* the values a read of the flag array m can give.  The constructor assigns
\* either every entry or none; an array it never assigned reads as all
\* zero or all nonzero bytes
FlagReads(m, idx) ==
  IF \A i \in idx : m[i] # Undef
  THEN { [i \in idx |-> m[i] = 1] }
  ELSE { [i \in idx |-> b] : b \in BOOLEAN }

\* the values read from the calibration buffer when it was never set up
GarbageReads(np) == IF np = Undef THEN { <<x, x>> : x \in Garbage } ELSE {<<0, 0>>}
CrashChoices(np) == IF np = Undef THEN BOOLEAN ELSE {FALSE}

(***************************************************************************)
(* The constructor.  c is the object under construction: the members, the  *)
(* parameter library, the SDK call log, and ret = "run" until it returns   *)
(* ("inert": an early return, "done": the end of the body).  F is the set  *)
(* of SDK calls that fail.                                                 *)
(***************************************************************************)
CtorCalls ==
  { <<"Initialize", 0>>, <<"GetNumberDevices", 0>>, <<"GetDetector", 0>>,
    <<"SetNumberPixels", 0>>, <<"GetPixelSize", 0>>, <<"SetPixelWidth", 0>>,
    <<"GetNumberPixels", 0>>, <<"GetPixelWidth", 0>>, <<"GetNumberGratings", 0>> } \cup
  { <<"SlitIsPresent", i + 1>> : i \in Slits } \cup
  { <<"GetWavelengthLimits", i>> : i \in 1 .. MAX_GRATINGS } \cup
  { <<"FlipperMirrorIsPresent", i + 1>> : i \in Mirrors }

CtorFailureSets == { F \in SUBSET CtorCalls : Cardinality(F) <= MaxCtorFailures }

Ok(fn, arg, F) == <<fn, arg>> \notin F

Log(c, fn, arg, F) == [c EXCEPT !.calls = Append(@, Call(fn, arg, Ok(fn, arg, F)))]

\* the object before the constructor body runs: members unassigned, parameters created
NewObject ==
  [params |-> NoParams, published |-> NoParams, publishedCal |-> <<>>,
   calibration |-> <<>>, calls |-> <<>>, ret |-> "run", refresh |-> "none",
   slit |-> [i \in Slits |-> Undef], mirror |-> [i \in Mirrors |-> Undef],
   numPixels |-> Undef, numGratings |-> Undef, minW |-> Undef, maxW |-> Undef]

\* ATSpectrographInitialize, ATSpectrographGetNumberDevices, GetDetector
CtorOpen(c, d, F) ==
  LET c1 == Log(c, "Initialize", 0, F)
      c2 == Log(c1, "GetNumberDevices", 0, F)
      c3 == Log(c2, "GetDetector", 0, F)
  IN IF checkError(Ok("Initialize", 0, F)) # "asynSuccess" THEN [c1 EXCEPT !.ret = "inert"]
     ELSE IF checkError(Ok("GetNumberDevices", 0, F)) # "asynSuccess"
     THEN [c2 EXCEPT !.ret = "inert"]
     ELSE IF d.devices < 1 THEN [c2 EXCEPT !.ret = "inert"]
     ELSE IF ~Ok("GetDetector", 0, F) THEN [c3 EXCEPT !.ret = "inert"]
     ELSE c3

\* pixel count and pixel width pushed to and read back from the spectrograph
CtorPixels(c, d, F) ==
  IF c.ret # "run" THEN c
  ELSE LET c1 == Log(c, "SetNumberPixels", 0, F)
           c2 == Log(c1, "GetPixelSize", 0, F)
           c3 == Log(c2, "SetPixelWidth", 0, F)
           c4 == Log(c3, "GetNumberPixels", 0, F)
           c5 == Log(c4, "GetPixelWidth", 0, F)
           np == IF Ok("GetNumberPixels", 0, F) THEN d.pixels ELSE Undef
       IN IF ~Ok("GetPixelSize", 0, F) THEN [c2 EXCEPT !.ret = "inert"]
          ELSE [c5 EXCEPT !.numPixels = np,
                          !.calibration = IF np = Undef THEN <<>>
                                          ELSE [p \in 1 .. np |-> 0]]

\* one iteration of the slit presence loop; ub is what `present` holds if the query fails
CtorSlitIter(c, i, d, F, ub) ==
  LET c1 == Log(c, "SlitIsPresent", i + 1, F)
      present == IF Ok("SlitIsPresent", i + 1, F) THEN d.slits[i + 1] ELSE ub[i]
  IN [c1 EXCEPT !.slit[i] = BoolInt(present),
                !.params = setParam(@, i, "SRSlitExists_", BoolInt(present))]

RECURSIVE CtorSlitLoop(_, _, _, _, _)
CtorSlitLoop(c, i, d, F, ub) ==
  IF i >= MAX_SLITS \/ c.ret # "run" THEN c
  ELSE CtorSlitLoop(CtorSlitIter(c, i, d, F, ub), i + 1, d, F, ub)

\* ATSpectrographGetNumberGratings; ub is what numGratings holds if the query fails
CtorNumGratings(c, d, F, ub) ==
  IF c.ret # "run" THEN c
  ELSE LET c1 == Log(c, "GetNumberGratings", 0, F)
           n == IF Ok("GetNumberGratings", 0, F) THEN d.gratings ELSE ub
       IN [c1 EXCEPT !.numGratings = n,
                     !.params = setParam(@, 0, "SRNumGratings_", n)]

\* one iteration of the wavelength range loop
CtorLimitsIter(c, i, F) ==
  LET c0 == [c EXCEPT !.params = setParam(@, i, "SRGratingExists_", 1)]
      c1 == Log(c0, "GetWavelengthLimits", i, F)
      ok == Ok("GetWavelengthLimits", i, F)
      mn == IF ok THEN DeviceLimits(i).min ELSE c.minW
      mx == IF ok THEN DeviceLimits(i).max ELSE c.maxW
      c2 == [c1 EXCEPT !.minW = mn, !.maxW = mx]
      c3 == [c2 EXCEPT !.params = setParam(@, i, "SRMinWavelength_", mn)]
  IN [c3 EXCEPT !.params = setParam(@, i, "SRMaxWavelength_", mx)]

RECURSIVE CtorLimitsLoop(_, _, _)
CtorLimitsLoop(c, i, F) ==
  IF i > c.numGratings \/ c.ret # "run" THEN c
  ELSE CtorLimitsLoop(CtorLimitsIter(c, i, F), i + 1, F)

\* the first index the "does not exist" loop marks
AbsentFrom(numGratings) == numGratings

RECURSIVE CtorAbsentLoop(_, _)
CtorAbsentLoop(c, i) ==
  IF i >= MAX_GRATINGS \/ c.ret # "run" THEN c
  ELSE CtorAbsentLoop([c EXCEPT !.params = setParam(@, i, "SRGratingExists_", 0)], i + 1)

\* one iteration of the flipper mirror presence loop
CtorMirrorIter(c, i, d, F, ub) ==
  LET c1 == Log(c, "FlipperMirrorIsPresent", i + 1, F)
      present == IF Ok("FlipperMirrorIsPresent", i + 1, F) THEN d.mirrors[i + 1] ELSE ub[i]
  IN [c1 EXCEPT !.mirror[i] = BoolInt(present),
                !.params = setParam(@, i, "SRFlipperMirrorExists_", BoolInt(present))]

RECURSIVE CtorMirrorLoop(_, _, _, _, _)
CtorMirrorLoop(c, i, d, F, ub) ==
  IF i >= MAX_FLIPPER_MIRRORS \/ c.ret # "run" THEN c
  ELSE CtorMirrorLoop(CtorMirrorIter(c, i, d, F, ub), i + 1, d, F, ub)

\* getStatus(), then callParamCallbacks(i) for every address
CtorFinish(c, dv, failAt, g, crash) ==
  IF c.ret # "run" THEN c
  ELSE LET mp == [i \in Mirrors |-> c.mirror[i] = 1]
           sp == [i \in Slits |-> c.slit[i] = 1]
           r == getStatus(c, mp, sp, c.numPixels, dv, failAt, g, crash)
       IN IF r.ret = "crash" THEN r
          ELSE [r EXCEPT !.published = r.params, !.ret = "done", !.refresh = r.ret]

Construct(d, dv, F, ubSlit, ubN, ubLim, ubMirror, failAt, g, crash) ==
  LET c0 == [NewObject EXCEPT !.minW = ubLim[1], !.maxW = ubLim[2]]
      c1 == CtorOpen(c0, d, F)
      c2 == CtorPixels(c1, d, F)
      c3 == CtorSlitLoop(c2, 0, d, F, ubSlit)
      c4 == CtorNumGratings(c3, d, F, ubN)
      c5 == CtorLimitsLoop(c4, 1, F)
      c6 == IF c5.ret = "run" THEN CtorAbsentLoop(c5, AbsentFrom(c5.numGratings)) ELSE c5
      c7 == CtorMirrorLoop(c6, 0, d, F, ubMirror)
  IN CtorFinish(c7, dv, failAt, g, crash)

\* what the locals hold where the query that should set them fails
UbFlags(idx, fn, F) ==
  { f \in [idx -> BOOLEAN] : \A i \in idx : f[i] => <<fn, i + 1>> \in F }
UbCount(F) == IF <<"GetNumberGratings", 0>> \in F THEN 0 .. MAX_GRATINGS ELSE {0}
UbLimits(F) ==
  IF \E i \in 1 .. MAX_GRATINGS : <<"GetWavelengthLimits", i>> \in F
  THEN { <<x, x + 1>> : x \in Garbage } ELSE {<<Undef, Undef>>}

NoRequest ==
  [op |-> "none", function |-> "", addr |-> 0, value |-> 0, status |-> "none",
   set |-> "none", refresh |-> "none", calls |-> <<>>, nIn |-> 0, copied |-> <<>>,
   gate |-> Undef]

Init ==
  /\ device \in Devices
  /\ dev = [grating |-> 1, wavelength |-> 1,
            slitWidth |-> [i \in Slits |-> 1], port |-> [i \in Mirrors |-> 1]]
  /\ phase = "new"
  /\ slitIsPresent_ = NewObject.slit
  /\ flipperMirrorIsPresent_ = NewObject.mirror
  /\ numPixels_ = NewObject.numPixels
  /\ calibration_ = NewObject.calibration
  /\ params = NewObject.params
  /\ published = NewObject.published
  /\ publishedCal = NewObject.publishedCal
  /\ last = NoRequest
  /\ nOps = 0

\* shamrock::shamrock
shamrock ==
  /\ phase = "new"
  /\ \E F \in CtorFailureSets :
       \E ubSlit \in UbFlags(Slits, "SlitIsPresent", F),
          ubMirror \in UbFlags(Mirrors, "FlipperMirrorIsPresent", F),
          ubN \in UbCount(F), ubLim \in UbLimits(F) :
         LET np == IF <<"GetNumberPixels", 0>> \in F THEN Undef ELSE device.pixels
         IN \E failAt \in RefreshCalls \cup {NoFail},
               g \in GarbageReads(np), crash \in CrashChoices(np) :
              LET c == Construct(device, dev, F, ubSlit, ubN, ubLim, ubMirror,
                                 failAt, g, crash)
              IN /\ phase' = IF c.ret = "crash" THEN "crashed"
                             ELSE IF c.ret = "inert" THEN "inert" ELSE "ready"
                 /\ slitIsPresent_' = c.slit
                 /\ flipperMirrorIsPresent_' = c.mirror
                 /\ numPixels_' = c.numPixels
                 /\ calibration_' = c.calibration
                 /\ params' = c.params
                 /\ published' = c.published
                 /\ publishedCal' = c.publishedCal
                 /\ last' = [NoRequest EXCEPT !.op = "shamrock", !.calls = c.calls,
                                              !.refresh = c.refresh]
  /\ UNCHANGED <<device, dev, nOps>>

(***************************************************************************)
(* The write handlers.  w is the state a handler works on: params,         *)
(* published, publishedCal, calibration, calls, ret, and dv (the           *)
(* hardware's settings), status (the handler's local `status`) and set     *)
(* (the outcome of the forwarded set call: "none", "ok" or "failed") and    *)
(* gate (the index at which the dispatch read a presence array, Undef when *)
(* it read none).                                                          *)
(***************************************************************************)
Request(dv) ==
  [params |-> params, published |-> published, publishedCal |-> publishedCal,
   calibration |-> calibration_, calls |-> <<>>, ret |-> "run",
   dv |-> dv, status |-> "asynSuccess", set |-> "none", gate |-> Undef]

\* a forwarded SDK set call and checkError on its result
Forward(w, fn, arg, setOk, dvNew) ==
  [w EXCEPT !.calls = Append(@, Call(fn, arg, setOk)),
            !.status = checkError(setOk),
            !.set = IF setOk THEN "ok" ELSE "failed",
            !.dv = IF setOk THEN dvNew ELSE @]

\* the entry of flipperMirrorIsPresent_ a port write at addr is gated on:
\* mp holds the array's entries, oob what lies behind its end
MirrorGate(addr, mp, oob) == IF addr < MAX_FLIPPER_MIRRORS THEN mp[addr] ELSE oob

\* mutant of Int32Dispatch: the value is not stored before the dispatch
Int32Dispatch_NoProvisional(w, function, addr, value, mp, oob, setOk) ==
  IF function = "SRGrating_"
  THEN Forward(w, "SetGrating", value, setOk, [w.dv EXCEPT !.grating = value])
  ELSE IF function = "SRFlipperMirrorPort_"
  THEN LET w1 == [w EXCEPT !.gate = addr]
       IN IF MirrorGate(addr, mp, oob)
          THEN Forward(w1, "SetFlipperMirror", addr + 1, setOk,
                       IF addr \in Mirrors THEN [w1.dv EXCEPT !.port[addr] = value]
                       ELSE w1.dv)
          ELSE w1
  ELSE w

\* writeInt32: the provisional setIntegerParam and the dispatch on the function
Int32Dispatch(w, function, addr, value, mp, oob, setOk) ==
  LET w0 == [w EXCEPT !.params = setParam(@, addr, function, value)]
  IN IF function = "SRGrating_"
     THEN Forward(w0, "SetGrating", value, setOk, [w0.dv EXCEPT !.grating = value])
     ELSE IF function = "SRFlipperMirrorPort_"
     THEN LET w1 == [w0 EXCEPT !.gate = addr]
          IN IF MirrorGate(addr, mp, oob)
             THEN Forward(w1, "SetFlipperMirror", addr + 1, setOk,
                          IF addr \in Mirrors THEN [w1.dv EXCEPT !.port[addr] = value]
                          ELSE w1.dv)
             ELSE w1
     ELSE w0

\* the entry of slitIsPresent_ a width write at addr is gated on
SlitGate(addr, sp) == sp[addr]

\* writeFloat64: the provisional setDoubleParam and the dispatch on the function
Float64Dispatch(w, function, addr, value, sp, setOk) ==
  LET w0 == [w EXCEPT !.params = setParam(@, addr, function, value)]
  IN IF function = "SRWavelength_"
     THEN Forward(w0, "SetWavelength", 0, setOk, [w0.dv EXCEPT !.wavelength = value])
     ELSE IF function = "SRSlitSize_"
     THEN LET w1 == [w0 EXCEPT !.gate = addr]
          IN IF SlitGate(addr, sp)
             THEN Forward(w1, "SetSlitWidth", addr + 1, setOk,
                          [w1.dv EXCEPT !.slitWidth[addr] = value])
             ELSE w1
     ELSE w0

\* getStatus(), whose result is dropped, then callParamCallbacks(addr)
RefreshAndPublish(w, addr, mp, sp, np, failAt, g, crash) ==
  LET r == getStatus(w, mp, sp, np, w.dv, failAt, g, crash)
  IN IF r.ret = "crash" THEN r
     ELSE [r EXCEPT !.published[addr] = r.params[addr]]

\* whether the dispatch forwards the write to the SDK
Forwards(function, addr, mp, sp, oob) ==
  \/ function \in {"SRGrating_", "SRWavelength_"}
  \/ function = "SRFlipperMirrorPort_" /\ MirrorGate(addr, mp, oob)
  \/ function = "SRSlitSize_" /\ SlitGate(addr, sp)

\* the handler's effect on the variables
Served(op, function, addr, value, r) ==
  /\ phase' = IF r.ret = "crash" THEN "crashed" ELSE phase
  /\ dev' = r.dv
  /\ params' = r.params
  /\ calibration_' = r.calibration
  /\ published' = IF r.ret = "crash" THEN published ELSE r.published
  /\ publishedCal' = r.publishedCal
  /\ last' = [NoRequest EXCEPT !.op = op, !.function = function, !.addr = addr,
                               !.value = value, !.calls = r.calls, !.set = r.set,
                               !.refresh = r.ret, !.gate = r.gate,
                               !.status = IF r.ret = "crash" THEN "none" ELSE r.status]
  /\ nOps' = nOps + 1
  /\ UNCHANGED <<device, slitIsPresent_, flipperMirrorIsPresent_, numPixels_>>

\* shamrock::writeInt32
writeInt32 ==
  /\ phase \in {"inert", "ready"}
  /\ nOps < MaxOps
  /\ \E function \in IntParams, addr \in Addrs, value \in WriteValues,
        mp \in FlagReads(flipperMirrorIsPresent_, Mirrors),
        sp \in FlagReads(slitIsPresent_, Slits) :
       \E oob \in (IF function = "SRFlipperMirrorPort_" /\ addr >= MAX_FLIPPER_MIRRORS
                   THEN BOOLEAN ELSE {FALSE}) :
         \E setOk \in (IF Forwards(function, addr, mp, sp, oob) THEN BOOLEAN ELSE {TRUE}),
            failAt \in FailPoints(mp, sp),
            g \in GarbageReads(numPixels_), crash \in CrashChoices(numPixels_) :
           LET w == Int32Dispatch(Request(dev), function, addr, value, mp, oob, setOk)
               r == RefreshAndPublish(w, addr, mp, sp, numPixels_, failAt, g, crash)
           IN Served("writeInt32", function, addr, value, r)

\* shamrock::writeFloat64
writeFloat64 ==
  /\ phase \in {"inert", "ready"}
  /\ nOps < MaxOps
  /\ \E function \in FloatParams, addr \in Addrs, value \in WriteValues,
        mp \in FlagReads(flipperMirrorIsPresent_, Mirrors),
        sp \in FlagReads(slitIsPresent_, Slits) :
       \E setOk \in (IF Forwards(function, addr, mp, sp, FALSE) THEN BOOLEAN ELSE {TRUE}),
          failAt \in FailPoints(mp, sp),
          g \in GarbageReads(numPixels_), crash \in CrashChoices(numPixels_) :
         LET w == Float64Dispatch(Request(dev), function, addr, value, sp, setOk)
             r == RefreshAndPublish(w, addr, mp, sp, numPixels_, failAt, g, crash)
         IN Served("writeFloat64", function, addr, value, r)

\* mutant of ReadBack: the count is not cut to the caller's capacity
ReadBack_NoTruncation(np, cal, nElements) ==
  [nIn |-> np, copied |-> SubSeq(cal, 1, np)]

\* readFloat32Array for the calibration parameter: *nIn and the elements copied
ReadBack(np, cal, nElements) ==
  LET nIn0 == np
      nIn == IF nElements < nIn0 THEN nElements ELSE nIn0
  IN [nIn |-> nIn, copied |-> SubSeq(cal, 1, nIn)]

\* shamrock::readFloat32Array
readFloat32Array ==
  /\ phase \in {"inert", "ready"}
  /\ nOps < MaxOps
  /\ \E function \in {"SRCalibration_", "SRWavelength_"}, nElements \in Capacities :
       \/ /\ function = "SRCalibration_" /\ numPixels_ # Undef
          /\ LET rb == ReadBack(numPixels_, calibration_, nElements)
             IN last' = [NoRequest EXCEPT !.op = "readFloat32Array",
                           !.function = function, !.value = nElements,
                           !.status = "asynSuccess",
                           !.nIn = rb.nIn, !.copied = rb.copied]
          /\ phase' = phase
       \/ /\ function = "SRCalibration_" /\ numPixels_ = Undef
          \* numPixels_ and calibration_ were never set: any count up to the
          \* capacity, any contents, or a fault in memcpy
          /\ \E n \in 0 .. nElements, gv \in Garbage, crash \in BOOLEAN :
               /\ last' = [NoRequest EXCEPT !.op = "readFloat32Array",
                             !.function = function, !.value = nElements,
                             !.status = IF crash THEN "none" ELSE "asynSuccess",
                             !.nIn = n, !.copied = [k \in 1 .. n |-> gv]]
               /\ phase' = IF crash THEN "crashed" ELSE phase
       \/ /\ function # "SRCalibration_"
          /\ last' = [NoRequest EXCEPT !.op = "readFloat32Array",
                        !.function = function, !.value = nElements,
                        !.status = "asynSuccess"]
          /\ phase' = phase
  /\ nOps' = nOps + 1
  /\ UNCHANGED <<device, dev, slitIsPresent_, flipperMirrorIsPresent_, numPixels_,
                 calibration_, params, published, publishedCal>>

Next ==
  \/ shamrock
  \/ writeInt32
  \/ writeFloat64
  \/ readFloat32Array

Spec == Init /\ [][Next]_vars

(***************************************************************************)
(* Vocabulary of the properties.                                           *)
(***************************************************************************)
IsWrite(r) == r.op \in {"writeInt32", "writeFloat64"}

\* the handler ran to its return statement
Returned(r) == r.status # "none"

\* the SDK calls to fn the request r made
CallsTo(r, fn) == { k \in 1 .. Len(r.calls) : r.calls[k].fn = fn }

\* the SDK reads the refresh of request r made: everything after the set call
RefreshLog(r) == IF r.set = "none" THEN r.calls ELSE Tail(r.calls)

\* the reads of a refresh in the order of section 4.2, under the driver's flags
AllReads ==
  << <<"GetFlipperMirror", 1>>, <<"GetFlipperMirror", 2>>, <<"GetGrating", 0>>,
     <<"GetWavelength", 0>>, <<"GetSlitWidth", 1>>, <<"GetSlitWidth", 2>>,
     <<"GetSlitWidth", 3>>, <<"GetSlitWidth", 4>>, <<"GetCalibration", 0>> >>

Wanted(c) ==
  /\ c[1] = "GetFlipperMirror" => flipperMirrorIsPresent_[c[2] - 1] = 1
  /\ c[1] = "GetSlitWidth" => slitIsPresent_[c[2] - 1] = 1

ExpectedReads == SelectSeq(AllReads, Wanted)

MinOf(a, b) == IF a < b THEN a ELSE b

\* the value the hardware holds for a forwarded parameter
DeviceValue(function, addr) ==
  IF function = "SRGrating_" THEN dev.grating
  ELSE IF function = "SRWavelength_" THEN dev.wavelength
  ELSE IF function = "SRSlitSize_" THEN dev.slitWidth[addr]
  ELSE IF addr \in Mirrors THEN dev.port[addr] ELSE Undef

(***************************************************************************)
(* C1.  An integer write of the flipper-mirror port at a mirror address    *)
(* whose presence flag is false leaves the cached port at that address as  *)
(* it was and makes no SDK set-flipper-mirror call.                        *)
(***************************************************************************)
C1_AbsentMirrorWriteIsFrame ==
  [][ ( /\ phase = "ready" /\ phase' = "ready" /\ nOps' = nOps + 1
        /\ last'.op = "writeInt32" /\ last'.function = "SRFlipperMirrorPort_"
        /\ last'.addr \in Mirrors
        /\ flipperMirrorIsPresent_[last'.addr] = 0 )
      => ( /\ params'[last'.addr]["SRFlipperMirrorPort_"]
                = params[last'.addr]["SRFlipperMirrorPort_"]
           /\ CallsTo(last', "SetFlipperMirror") = {} ) ]_vars

(***************************************************************************)
(* C2.  A float write of the slit width at an address whose slit is absent *)
(* makes no SDK set-slit-width call, and when the handler returns the      *)
(* cached width at that address is 0, not the written value.               *)
(***************************************************************************)
C2_AbsentSlitWriteReadsZero ==
  ( /\ phase = "ready" /\ last.op = "writeFloat64" /\ last.function = "SRSlitSize_"
    /\ slitIsPresent_[last.addr] = 0 )
  => ( /\ CallsTo(last, "SetSlitWidth") = {}
       /\ params[last.addr]["SRSlitSize_"] = 0 )

(***************************************************************************)
(* C3.  After construction with the device reporting N gratings, the       *)
(* grating-exists flag is 1 at every grating address 1..N: no address in   *)
(* 1..N is left marked as not existing.                                    *)
(***************************************************************************)
C3_GratingExistsFlags ==
  ( /\ phase = "ready" /\ last.op = "shamrock"
    /\ \E k \in CallsTo(last, "GetNumberGratings") : last.calls[k].ok )
  => \A i \in 1 .. device.gratings : params[i]["SRGratingExists_"] = 1

(***************************************************************************)
(* C4.  After a write whose forwarded SDK set call fails, the refresh has  *)
(* still run, and when the handler returns the cached value of the written *)
(* parameter is the hardware's current value.                              *)
(***************************************************************************)
C4_FailedWriteShowsDeviceValue ==
  ( /\ phase = "ready" /\ IsWrite(last) /\ Returned(last) /\ last.set = "failed"
    /\ DeviceValue(last.function, last.addr) # Undef )
  => ( /\ last.refresh \in {"asynSuccess", "asynError"}
       /\ params[last.addr][last.function] = DeviceValue(last.function, last.addr) )

(***************************************************************************)
(* C5.  The refresh that follows a write.                                  *)
(***************************************************************************)
LogIds(r) ==
  [k \in 1 .. Len(RefreshLog(r)) |-> <<RefreshLog(r)[k].fn, RefreshLog(r)[k].arg>>]

\* every read was made and succeeded, the cache holds what the hardware
\* reported, and all address slots and the calibration array were published
FullRefresh(r) ==
  /\ LogIds(r) = ExpectedReads
  /\ \A k \in 1 .. Len(RefreshLog(r)) : RefreshLog(r)[k].ok
  /\ params[0]["SRGrating_"] = dev.grating
  /\ params[0]["SRWavelength_"] = dev.wavelength
  /\ \A i \in Slits : slitIsPresent_[i] = 1 => params[i]["SRSlitSize_"] = dev.slitWidth[i]
  /\ \A i \in Mirrors :
       flipperMirrorIsPresent_[i] = 1 => params[i]["SRFlipperMirrorPort_"] = dev.port[i]
  /\ numPixels_ # Undef
       => calibration_ = DeviceCalibration(dev.grating, dev.wavelength, numPixels_)
  /\ published = params
  /\ publishedCal = calibration_

\* the reads were made in order up to one that failed, and none after it
AbortedRefresh(r) ==
  LET n == Len(RefreshLog(r))
  IN /\ n >= 1 /\ n <= Len(ExpectedReads)
     /\ LogIds(r) = SubSeq(ExpectedReads, 1, n)
     /\ ~RefreshLog(r)[n].ok
     /\ \A k \in 1 .. (n - 1) : RefreshLog(r)[k].ok

\* C5 as claimed: after any write whose SDK set call succeeded, a full
\* refresh follows in the same invocation: everything is re-read and republished.
C5_SuccessfulWriteRefreshesAll ==
  (phase = "ready" /\ IsWrite(last) /\ Returned(last) /\ last.set = "ok")
  => FullRefresh(last)

\* C5 as amended: after any write the refresh is started in the same
\* invocation and makes its reads in order up to the first that fails; when
\* none fails everything is re-read and republished, and when one fails
\* the refresh stops there and only the written address slot is republished.
C5_RefreshRunsToFirstFailure ==
  (phase = "ready" /\ IsWrite(last) /\ Returned(last))
  => /\ last.refresh \in {"asynSuccess", "asynError"}
     /\ last.refresh = "asynSuccess" => FullRefresh(last)
     /\ last.refresh = "asynError"
          => AbortedRefresh(last) /\ published[last.addr] = params[last.addr]

\* C5's case: a slit-width write forwarded with success, then a complete refresh
C5_Witness ==
  /\ phase = "ready" /\ last.op = "writeFloat64" /\ last.function = "SRSlitSize_"
  /\ last.set = "ok" /\ last.refresh = "asynSuccess"
  /\ Len(last.calls) = 1 + Len(ExpectedReads)
  /\ \E i \in Mirrors : flipperMirrorIsPresent_[i] = 1

(***************************************************************************)
(* C6.  A driver whose construction stopped at SDK initialisation, at the  *)
(* device count or at the detector geometry is inert: the constructor      *)
(* makes no SDK call after the step that stopped it, and afterwards no     *)
(* parameter is published and no SDK call is attempted.                    *)
(***************************************************************************)
C6_InertStaysInert ==
  phase = "inert"
  => /\ published = NoParams
     /\ publishedCal = << >>
     /\ last.op # "shamrock" => last.calls = << >>
     /\ last.op = "shamrock"
          => last.calls[Len(last.calls)].fn
               \in {"Initialize", "GetNumberDevices", "GetDetector", "GetPixelSize"}

(***************************************************************************)
(* C7.  After any status refresh, also one that aborts on a read failure,  *)
(* the cached minimum and maximum wavelength (once set) equal the first    *)
(* and the last entry of the calibration buffer.                           *)
(***************************************************************************)
C7_RangeIsCalibrationEnds ==
  ( /\ phase = "ready" /\ numPixels_ # Undef /\ last.refresh # "none"
    /\ params[0]["SRMinWavelength_"] # Undef /\ params[0]["SRMaxWavelength_"] # Undef )
  => ( /\ params[0]["SRMinWavelength_"] = calibration_[1]
       /\ params[0]["SRMaxWavelength_"] = calibration_[numPixels_] )

(***************************************************************************)
(* C8.  A calibration read-back with capacity n, on a driver whose pixel   *)
(* count is resolved, reports min(n, numPixels_), copies that many leading *)
(* entries of the calibration buffer and makes no SDK call.                *)
(***************************************************************************)
C8_ReadBackTruncates ==
  ( /\ last.op = "readFloat32Array" /\ last.function = "SRCalibration_"
    /\ numPixels_ # Undef )
  => ( /\ last.nIn = MinOf(last.value, numPixels_)
       /\ last.nIn <= last.value
       /\ last.nIn <= numPixels_
       /\ numPixels_ = Len(calibration_)
       /\ Len(last.copied) = last.nIn
       /\ \A k \in 1 .. last.nIn : last.copied[k] = calibration_[k]
       /\ last.calls = << >> )

\* C8's case: a read-back whose capacity is below the pixel count
C8_Witness ==
  /\ last.op = "readFloat32Array" /\ last.function = "SRCalibration_"
  /\ numPixels_ # Undef
  /\ last.value >= 1 /\ last.value < numPixels_
  /\ last.nIn = last.value
  /\ calibration_[1] # calibration_[numPixels_]

(***************************************************************************)
(* C9.  The presence flags under writes.                                   *)
(***************************************************************************)
ExistsParams == {"SRSlitExists_", "SRFlipperMirrorExists_"}

LimitParams == {"SRMinWavelength_", "SRMaxWavelength_"}

\* C10 as claimed: the limits cached at the grating addresses keep their
\* construction-time values under every write, and the limits query is
\* never issued again.
C10_LimitsImmutable ==
  [][ (phase # "new" /\ IsWrite(last') /\ nOps' = nOps + 1)
      => ( /\ \A i \in 1 .. MAX_GRATINGS, p \in LimitParams :
                params[i][p] # Undef => params'[i][p] = params[i][p]
           /\ CallsTo(last', "GetWavelengthLimits") = {} )
    ]_vars

\* C10 as amended: a limit cached at a grating address changes only by a
\* float write of that limit parameter at that address, which stores the
\* written value; every other write keeps it, and no write issues the
\* limits query.
C10_LimitsChangeOnlyByOwnWrite ==
  [][ (phase # "new" /\ nOps' = nOps + 1)
      => ( /\ \A i \in 1 .. MAX_GRATINGS, p \in LimitParams :
                params'[i][p] # params[i][p]
                  => ( /\ last'.op = "writeFloat64" /\ last'.function = p /\ last'.addr = i
                       /\ params'[i][p] = last'.value )
           /\ CallsTo(last', "GetWavelengthLimits") = {} )
    ]_vars

\* C10's case: grating 2 was selected with success and the refresh completed,
\* and the limits of gratings 1 and 2 are those queried at construction
C10_Witness ==
  /\ phase = "ready" /\ last.op = "writeInt32" /\ last.function = "SRGrating_"
  /\ last.value = 2 /\ last.set = "ok" /\ last.refresh = "asynSuccess"
  /\ dev.grating = 2
  /\ \A i \in 1 .. 2 : /\ params[i]["SRMinWavelength_"] = DeviceLimits(i).min
                       /\ params[i]["SRMaxWavelength_"] = DeviceLimits(i).max

(***************************************************************************)
(* C11.  Writes of a parameter kind the dispatch does not act on.          *)
(***************************************************************************)
\* the kinds the dispatch of the handler op acts on
Dispatched(op) ==
  IF op = "writeInt32" THEN {"SRGrating_", "SRFlipperMirrorPort_"}
  ELSE {"SRWavelength_", "SRSlitSize_"}

PassiveWrite(r) == IsWrite(r) /\ Returned(r) /\ r.function \notin Dispatched(r.op)

SetCalls == {"SetGrating", "SetFlipperMirror", "SetWavelength", "SetSlitWidth"}

\* no set call was made and the refresh made at least one device read
NoSetButRefresh(r) ==
  /\ \A fn \in SetCalls : CallsTo(r, fn) = {}
  /\ r.refresh \in {"asynSuccess", "asynError"}
  /\ Len(r.calls) >= 1
  /\ \A k \in 1 .. Len(r.calls) : <<r.calls[k].fn, r.calls[k].arg>> \in RefreshCalls

C12_WriteReportsEveryFailure ==
  (IsWrite(last) /\ Returned(last))
  => ( last.status = "asynSuccess" <=> \A k \in 1 .. Len(last.calls) : last.calls[k].ok )

(***************************************************************************)
(* C13.  A refresh makes its reads in the order mirror ports, grating,     *)
(* wavelength, slit widths, calibration; when a read fails it returns      *)
(* error at once: no later read is made, the cache entries and the         *)
(* calibration buffer belonging to the later reads are as they were when   *)
(* the refresh started, and the refresh publishes neither the address      *)
(* slots nor the calibration array.                                        *)
(***************************************************************************)
IsRead(c) == <<c.fn, c.arg>> \in RefreshCalls

\* the device reads the refresh of request r made, in the order it made them
Reads(r) == SelectSeq(r.calls, IsRead)

\* the cache entries (address, parameter) the read c stores into
Entries(c) ==
  IF c[1] = "GetFlipperMirror" THEN { <<c[2] - 1, "SRFlipperMirrorPort_">> }
  ELSE IF c[1] = "GetGrating" THEN { <<0, "SRGrating_">> }
  ELSE IF c[1] = "GetWavelength" THEN { <<0, "SRWavelength_">> }
  ELSE IF c[1] = "GetSlitWidth" THEN { <<c[2] - 1, "SRSlitSize_">> }
  ELSE { <<0, "SRMinWavelength_">>, <<0, "SRMaxWavelength_">> }

C13_RefreshFailsFast ==
  [][ ( /\ phase' = "ready" /\ (phase = "new" \/ nOps' = nOps + 1)
        /\ last'.refresh = "asynError" )
      => LET rd == Reads(last')
             n == Len(rd)
             exp == ExpectedReads'
         IN /\ n >= 1 /\ n <= Len(exp)
            /\ [k \in 1 .. n |-> <<rd[k].fn, rd[k].arg>>] = SubSeq(exp, 1, n)
            /\ ~rd[n].ok
            /\ \A k \in 1 .. (n - 1) : rd[k].ok
            /\ \A k \in (n + 1) .. Len(exp) : \A e \in Entries(exp[k]) :
                 params'[e[1]][e[2]]
                   = IF IsWrite(last') /\ e = <<last'.addr, last'.function>>
                     THEN last'.value ELSE params[e[1]][e[2]]
            /\ n < Len(exp)
                 => calibration_' = IF phase = "new" /\ numPixels_' # Undef
                                    THEN [q \in 1 .. numPixels_' |-> 0]
                                    ELSE calibration_
            /\ publishedCal' = publishedCal
            /\ IsWrite(last')
                 => \A a \in Addrs \ {last'.addr} : published'[a] = published[a]
    ]_vars

\* C13's case: a write whose refresh read a mirror port, the grating, the
\* wavelength and the width of slit 1 and then failed reading that of slit
\* 3, with the calibration read still to come
C13_Witness ==
  /\ phase = "ready" /\ IsWrite(last) /\ last.refresh = "asynError"
  /\ Len(Reads(last)) = 5
  /\ Reads(last)[1].fn = "GetFlipperMirror"
  /\ Reads(last)[4] = Call("GetSlitWidth", 1, TRUE)
  /\ Reads(last)[5] = Call("GetSlitWidth", 3, FALSE)
  /\ publishedCal = <<14, 15>>

(***************************************************************************)
(* C14.  A construction that passed steps 1-3 and did not return early     *)
(* queries every slit, the grating count, every grating of the device and  *)
(* every flipper mirror, whichever of these queries fail, then runs the    *)
(* refresh and publishes all 4 address slots.                              *)
(***************************************************************************)
Made(r, fn, arg) == \E k \in 1 .. Len(r.calls) : r.calls[k].fn = fn /\ r.calls[k].arg = arg

C14_ConstructionContinues ==
  (phase = "ready" /\ last.op = "shamrock")
  => /\ \A i \in Slits : Made(last, "SlitIsPresent", i + 1)
     /\ Made(last, "GetNumberGratings", 0)
     /\ \A i \in 1 .. device.gratings : Made(last, "GetWavelengthLimits", i)
     /\ \A i \in Mirrors : Made(last, "FlipperMirrorIsPresent", i + 1)
     /\ last.refresh \in {"asynSuccess", "asynError"}
     /\ Len(Reads(last)) >= 1
     /\ published = params

(***************************************************************************)
(* C15.  For every write the host framework can deliver, the index at      *)
(* which the dispatch reads a presence array is within that array: below 2 *)
(* for flipperMirrorIsPresent_, below 4 for slitIsPresent_.                *)
(***************************************************************************)
C15_PresenceIndexInBounds ==
  (IsWrite(last) /\ last.gate # Undef)
  => IF last.function = "SRFlipperMirrorPort_"
     THEN last.gate \in Mirrors
     ELSE last.gate \in Slits

(***************************************************************************)
(* C16.  A refresh in which a read fails never replaces the cached width   *)
(* of a present slit by a value the device did not report: after a write   *)
(* whose refresh aborted, the cached width of every present slit other     *)
(* than the written one is what it was, or what a successful width read of *)
(* that slit in this refresh returned.                                     *)
(***************************************************************************)
C16_FailedRefreshKeepsWidths ==
  [][ ( /\ phase = "ready" /\ phase' = "ready" /\ nOps' = nOps + 1
        /\ IsWrite(last') /\ last'.refresh = "asynError" )
      => \A i \in Slits :
           ( /\ slitIsPresent_[i] = 1
             /\ ~(last'.function = "SRSlitSize_" /\ last'.addr = i) )
           => \/ params'[i]["SRSlitSize_"] = params[i]["SRSlitSize_"]
              \/ /\ \E k \in 1 .. Len(last'.calls) :
                      last'.calls[k] = Call("GetSlitWidth", i + 1, TRUE)
                 /\ params'[i]["SRSlitSize_"] = dev'.slitWidth[i]
    ]_vars

(***************************************************************************)
(* C17.  The calibration buffer and the pixel count are used only once     *)
(* they are set: while the pixel count is unset no refresh hands the       *)
(* buffer to the calibration read and no calibration read-back is served,  *)
(* and once it is set the buffer has that length.                          *)
(***************************************************************************)
C17_CalibrationOnlyWhenAllocated ==
  /\ numPixels_ = Undef
       => /\ ~Made(last, "GetCalibration", 0)
          /\ ~(last.op = "readFloat32Array" /\ last.function = "SRCalibration_")
  /\ (phase # "new" /\ numPixels_ # Undef) => Len(calibration_) = numPixels_
=============================================================================
